---- MODULE Spec2Model ----
(***************************************************************************)
(* Citizen AI (src/app.py): a session-authenticated Flask application.     *)
(* Users sign up and log in, ask questions that a keyword responder        *)
(* answers from fixed templates, submit feedback that is stored with a     *)
(* sentiment label, and read per-user feedback statistics on a dashboard.  *)
(*                                                                         *)
(* Text is modelled as a sequence of one-character strings, so that        *)
(* str.strip(), str.lower() and the substring test `w in s` are computed   *)
(* and not assumed.                                                        *)
(***************************************************************************)
EXTENDS Integers, Sequences, FiniteSets, TLC

VARIABLES
    users,      \* table User, in insertion order
    chats,      \* table ChatHistory, in insertion order
    feedbacks,  \* table Feedback, in insertion order
    session,    \* the Flask session of each browser: a dict
    pending,    \* per browser: the signup request between its SELECT and its COMMIT
    now,        \* the last value datetime.utcnow() returned
    registered, \* history: per User id, the form values of the signup that made the row
    req,        \* the request whose handler took the last step
    io,         \* what the database commit and the polarity scorer did in that step
    resp        \* the response to req

vars == <<users, chats, feedbacks, session, pending, now, registered, req, io, resp>>

----------------------------------------------------------------------------
(* Text *)

\* the characters str.strip() removes
Whitespace == {" ", "\t", "\n", "\r", "\f"}

UpperCase == <<"A","B","C","D","E","F","G","H","I","J","K","L","M",
               "N","O","P","Q","R","S","T","U","V","W","X","Y","Z">>

LowerCase == <<"a","b","c","d","e","f","g","h","i","j","k","l","m",
               "n","o","p","q","r","s","t","u","v","w","x","y","z">>

LowerChar(ch) ==
    IF \E i \in DOMAIN UpperCase : UpperCase[i] = ch
    THEN LowerCase[CHOOSE i \in DOMAIN UpperCase : UpperCase[i] = ch]
    ELSE ch

\* str.lower()
Lower(s) == [i \in 1..Len(s) |-> LowerChar(s[i])]

RECURSIVE LStrip(_)
LStrip(s) ==
    IF s # <<>> /\ Head(s) \in Whitespace THEN LStrip(Tail(s)) ELSE s

RECURSIVE RStrip(_)
RStrip(s) ==
    IF s # <<>> /\ s[Len(s)] \in Whitespace
    THEN RStrip(SubSeq(s, 1, Len(s) - 1))
    ELSE s

Strip_none(s) == s

\* str.strip()
Strip(s) == RStrip(LStrip(s))

\* the Python test `w in s` on strings: w is a substring of s
Contains(w, s) ==
    \E i \in 0..(Len(s) - Len(w)) : SubSeq(s, i + 1, i + Len(w)) = w

\* Python truthiness of a string
Truthy(s) == s # <<>>

----------------------------------------------------------------------------
(* Responder *)

LicenseWords ==
    { <<"l","i","c","e","n","s","e">>,
      <<"p","e","r","m","i","t">>,
      <<"r","e","g","i","s","t","r","a","t","i","o","n">>,
      <<"i","d">> }

VotingWords ==
    { <<"v","o","t","e">>,
      <<"v","o","t","i","n","g">>,
      <<"e","l","e","c","t","i","o","n">>,
      <<"b","a","l","l","o","t">> }

TaxWords ==
    { <<"t","a","x">>,
      <<"t","a","x","e","s">>,
      <<"i","r","s">>,
      <<"r","e","f","u","n","d">> }

SocialWords ==
    { <<"s","o","c","i","a","l">>,
      <<"b","e","n","e","f","i","t","s">>,
      <<"a","s","s","i","s","t","a","n","c","e">>,
      <<"w","e","l","f","a","r","e">>,
      <<"f","o","o","d">>,
      <<"m","e","d","i","c","a","i","d">> }

LegalWords ==
    { <<"c","o","u","r","t">>,
      <<"l","e","g","a","l">>,
      <<"l","a","w","s","u","i","t">>,
      <<"t","i","c","k","e","t">>,
      <<"f","i","n","e">> }

\* The six fixed replies, each named by its first line.
LicenseTemplate == "Regarding your question about licenses and permits:"
VotingTemplate  == "Regarding voting and elections:"
TaxTemplate     == "Regarding tax matters:"
SocialTemplate  == "Regarding social services and benefits:"
LegalTemplate   == "Regarding legal and court matters:"
DefaultTemplate == "Thank you for your question about government services."

\* any(word in question_lower for word in words)
AnyWordIn(words, question_lower) ==
    \E word \in words : Contains(word, question_lower)

get_ai_response_swapped(question) ==
    LET question_lower == Lower(question) IN
    IF AnyWordIn(LicenseWords, question_lower) THEN LicenseTemplate
    ELSE IF AnyWordIn(TaxWords, question_lower) THEN TaxTemplate
    ELSE IF AnyWordIn(VotingWords, question_lower) THEN VotingTemplate
    ELSE IF AnyWordIn(SocialWords, question_lower) THEN SocialTemplate
    ELSE IF AnyWordIn(LegalWords, question_lower) THEN LegalTemplate
    ELSE DefaultTemplate

get_ai_response(question) ==
    LET question_lower == Lower(question) IN
    IF AnyWordIn(LicenseWords, question_lower) THEN LicenseTemplate
    ELSE IF AnyWordIn(VotingWords, question_lower) THEN VotingTemplate
    ELSE IF AnyWordIn(TaxWords, question_lower) THEN TaxTemplate
    ELSE IF AnyWordIn(SocialWords, question_lower) THEN SocialTemplate
    ELSE IF AnyWordIn(LegalWords, question_lower) THEN LegalTemplate
    ELSE DefaultTemplate

----------------------------------------------------------------------------
(* Sentiment of feedback *)

Positive == <<"P","o","s","i","t","i","v","e">>
Negative == <<"N","e","g","a","t","i","v","e">>
Neutral  == <<"N","e","u","t","r","a","l">>

\* Polarity scores are counted in hundredths: the 0.1 of the source is 10.
PolarityThreshold == 10

\* What TextBlob(text).sentiment.polarity did: it returned a score in [-1, 1]
\* or it raised.
ScorerReturned(polarity) ==
    [called |-> TRUE, raised |-> FALSE, polarity |-> polarity]

ScorerRaised == [called |-> TRUE, raised |-> TRUE, polarity |-> 0]

NotScored == [called |-> FALSE, raised |-> FALSE, polarity |-> 0]

analyze_sentiment_inclusive(scorer) ==
    IF scorer.raised THEN Neutral
    ELSE IF scorer.polarity >= PolarityThreshold THEN Positive
    ELSE IF scorer.polarity <= -PolarityThreshold THEN Negative
    ELSE Neutral

analyze_sentiment(scorer) ==
    IF scorer.raised THEN Neutral
    ELSE IF scorer.polarity > PolarityThreshold THEN Positive
    ELSE IF scorer.polarity < -PolarityThreshold THEN Negative
    ELSE Neutral

----------------------------------------------------------------------------
(* Passwords *)

\* The digest werkzeug computes from a salt and a password, idealised as
\* collision-free: two digests are equal exactly when salt and password are.
Digest(salt, password) == <<salt, password>>

generate_password_hash(password, salt) ==
    [salt |-> salt, digest |-> Digest(salt, password)]

check_password_hash_any(pwhash, password) == TRUE

check_password_hash(pwhash, password) ==
    Digest(pwhash.salt, password) = pwhash.digest

----------------------------------------------------------------------------
(* Requests, responses and the collaborators' outcomes *)

Request(c, method, path, form) ==
    [client |-> c, method |-> method, path |-> path, form |-> form]

NoForm == <<>>

\* render_template(page) after flash(message); "" when nothing is flashed
Render(page, message) ==
    [status |-> 200, kind |-> "page", target |-> page, flash |-> message,
     data |-> <<>>]

\* render_template(page, **context)
RenderWith(page, context) ==
    [status |-> 200, kind |-> "page", target |-> page, flash |-> "",
     data |-> context]

\* redirect(url_for(endpoint)) after flash(message)
Redirect(to, message) ==
    [status |-> 302, kind |-> "redirect", target |-> to, flash |-> message,
     data |-> <<>>]

\* jsonify(payload), status
Json(status, payload) ==
    [status |-> status, kind |-> "json", target |-> "", flash |-> "",
     data |-> payload]

\* an HTTP error page: werkzeug's for an aborted request, 500.html for an
\* exception no handler caught
ErrorPage(status) ==
    [status |-> status, kind |-> "error", target |-> "", flash |-> "",
     data |-> <<>>]

\* the handler has not answered yet
NoResponse ==
    [status |-> 0, kind |-> "none", target |-> "", flash |-> "", data |-> <<>>]

\* commit: "none" (no commit attempted), "ok", "failed" (it raised)
IO(commit, scorer) == [commit |-> commit, scorer |-> scorer]

NoIO == IO("none", NotScored)

----------------------------------------------------------------------------
(* Queries *)

\* 'user_id' in session
LoggedIn(sess) == "user_id" \in DOMAIN sess

\* session.clear()
EmptySession == <<>>

\* User.query.filter_by(email=email).first(): the rows found, first one first
FindUser(email) == SelectSeq(users, LAMBDA u : u.email = email)

UniqueEmail_off(email) == TRUE

\* the UNIQUE constraint on User.email: may a row with this email be inserted?
UniqueEmail(email) == \A i \in DOMAIN users : users[i].email # email

\* Feedback.query.filter_by(user_id=user_id), in table order
FeedbackOf(user_id) == SelectSeq(feedbacks, LAMBDA f : f.user_id = user_id)

positive == <<"p","o","s","i","t","i","v","e">>
negative == <<"n","e","g","a","t","i","v","e">>

get_feedback_stats_exact(sess) ==
    IF ~LoggedIn(sess)
    THEN [positive |-> 0, neutral |-> 0, negative |-> 0, total |-> 0]
    ELSE LET feedback_entries == FeedbackOf(sess.user_id)
             rows == DOMAIN feedback_entries
             sentiment(i) == feedback_entries[i].sentiment
         IN  [positive |-> Cardinality({i \in rows : sentiment(i) = positive}),
              negative |-> Cardinality({i \in rows : sentiment(i) = negative}),
              neutral  |-> Cardinality({i \in rows :
                               sentiment(i) \notin {positive, negative}}),
              total    |-> Len(feedback_entries)]

get_feedback_stats(sess) ==
    IF ~LoggedIn(sess)
    THEN [positive |-> 0, neutral |-> 0, negative |-> 0, total |-> 0]
    ELSE LET feedback_entries == FeedbackOf(sess.user_id)
             rows == DOMAIN feedback_entries
             sentiment(i) == Lower(feedback_entries[i].sentiment)
         IN  [positive |-> Cardinality({i \in rows : sentiment(i) = positive}),
              negative |-> Cardinality({i \in rows : sentiment(i) = negative}),
              neutral  |-> Cardinality({i \in rows :
                               sentiment(i) \notin {positive, negative}}),
              total    |-> Len(feedback_entries)]

\* ORDER BY timestamp DESC over a set of rows.  SQL leaves the order of rows
\* with equal timestamps to the engine: tie says which way it breaks them.
RECURSIVE OrderByTimestampDesc(_, _)
OrderByTimestampDesc(rows, tie) ==
    IF rows = {} THEN <<>>
    ELSE LET newest == {r \in rows : \A q \in rows : q.timestamp <= r.timestamp}
             first  == CHOOSE r \in newest : \A q \in newest :
                           IF tie = "id asc" THEN r.id <= q.id ELSE r.id >= q.id
         IN  <<first>> \o OrderByTimestampDesc(rows \ {first}, tie)

TieBreaks == {"id asc", "id desc"}

\* .limit(n)
Limit(rows, n) == SubSeq(rows, 1, IF Len(rows) < n THEN Len(rows) ELSE n)

\* the number of rows the dashboard lists
RecentLimit == 10

recent_feedback_unlimited(user_id, tie) ==
    LET mine == FeedbackOf(user_id) IN
    OrderByTimestampDesc({mine[i] : i \in DOMAIN mine}, tie)

\* Feedback.query.filter_by(user_id=...).order_by(Feedback.timestamp.desc())
\*     .limit(10).all()
recent_feedback(user_id, tie) ==
    LET mine == FeedbackOf(user_id) IN
    Limit(OrderByTimestampDesc({mine[i] : i \in DOMAIN mine}, tie), RecentLimit)

----------------------------------------------------------------------------
(* Handlers.  c is the browser (its session cookie), form the request's   *)
(* fields; ok says whether the commit goes through, dt how far the clock  *)
(* has advanced when a row's default timestamp is taken.                  *)

\* POST /signup up to the SELECT that looks for the email
SignupCheck(c, form, salt) ==
    /\ pending[c] = <<>>
    /\ LET full_name == Strip(form.full_name)
           email     == Strip(form.email)
           password  == form.password
           request   == Request(c, "POST", "/signup", form)
       IN  /\ req' = request
           /\ IF ~(Truthy(full_name) /\ Truthy(email) /\ Truthy(password))
              THEN /\ resp' = Render("signup.html", "Please fill in all fields.")
                   /\ pending' = pending
              ELSE IF FindUser(email) # <<>>
              THEN /\ resp' = Render("signup.html",
                           "Email already registered. Please login instead.")
                   /\ pending' = pending
              ELSE /\ resp' = NoResponse
                   /\ pending' = [pending EXCEPT ![c] =
                          << [request  |-> request,
                              new_user |->
                                  [full_name     |-> full_name,
                                   email         |-> email,
                                   password_hash |->
                                       generate_password_hash(password, salt)]] >>]
    /\ io' = NoIO
    /\ UNCHANGED <<users, chats, feedbacks, session, now, registered>>

\* POST /signup from db.session.add(new_user) on
SignupCommit(c, ok, dt) ==
    /\ pending[c] # <<>>
    /\ LET request  == pending[c][1].request
           new_user == pending[c][1].new_user
       IN  /\ req' = request
           /\ IF ok /\ UniqueEmail(new_user.email)
              THEN /\ now' = now + dt
                   /\ users' = Append(users,
                          [id            |-> Len(users) + 1,
                           full_name     |-> new_user.full_name,
                           email         |-> new_user.email,
                           password_hash |-> new_user.password_hash,
                           created_at    |-> now'])
                   /\ registered' = Append(registered, request.form)
                   /\ io' = IO("ok", NotScored)
                   /\ resp' = Redirect("/login",
                          "Account created successfully! Please log in.")
              ELSE \* the commit raised: db.session.rollback()
                   /\ UNCHANGED <<now, users, registered>>
                   /\ io' = IO("failed", NotScored)
                   /\ resp' = Render("signup.html",
                          "Error creating account. Please try again.")
    /\ pending' = [pending EXCEPT ![c] = <<>>]
    /\ UNCHANGED <<chats, feedbacks, session>>

\* POST /login
Login(c, form) ==
    /\ pending[c] = <<>>
    /\ LET email    == Strip(form.email)
           password == form.password
           user     == FindUser(email)
       IN  /\ req' = Request(c, "POST", "/login", form)
           /\ IF ~Truthy(email) \/ ~Truthy(password)
              THEN /\ resp' = Render("login.html", "Please fill in all fields.")
                   /\ session' = session
              ELSE IF /\ user # <<>>
                      /\ check_password_hash(user[1].password_hash, password)
              THEN /\ session' = [session EXCEPT ![c] =
                          [user_id   |-> user[1].id,
                           user_name |-> user[1].full_name]]
                   /\ resp' = Redirect("/home", "Login successful!")
              ELSE /\ resp' = Render("login.html", "Invalid email or password.")
                   /\ session' = session
    /\ io' = NoIO
    /\ UNCHANGED <<users, chats, feedbacks, pending, now, registered>>

\* GET /logout
Logout(c) ==
    /\ pending[c] = <<>>
    /\ req' = Request(c, "GET", "/logout", NoForm)
    /\ session' = [session EXCEPT ![c] = EmptySession]
    /\ resp' = Redirect("/", "You have been logged out.")
    /\ io' = NoIO
    /\ UNCHANGED <<users, chats, feedbacks, pending, now, registered>>

\* a page that only needs a session
SessionPage(c, path, template) ==
    /\ pending[c] = <<>>
    /\ req' = Request(c, "GET", path, NoForm)
    /\ resp' = IF ~LoggedIn(session[c])
               THEN Redirect("/login", "")
               ELSE Render(template, "")
    /\ io' = NoIO
    /\ UNCHANGED <<users, chats, feedbacks, session, pending, now, registered>>

\* GET /home
Home(c) == SessionPage(c, "/home", "home.html")

\* GET /chat
Chat(c) == SessionPage(c, "/chat", "chat.html")

\* The body of a POST /chat: its content type ("form" or "json") and its
\* 'message' field, if it has one.
ChatBody(content_type, has_message, message) ==
    [content_type |-> content_type, has_message |-> has_message,
     message |-> message]

\* request.form.get('message'): <<>> for None, <<value>> for a value
FormMessage(body) ==
    IF body.content_type = "form" /\ body.has_message
    THEN <<body.message>> ELSE <<>>

\* request.json.get('message'), when the body is JSON
JsonMessage(body) ==
    IF body.content_type = "json" /\ body.has_message
    THEN <<body.message>> ELSE <<>>

\* Python truthiness of None or a string
TruthyOpt(opt) == opt # <<>> /\ Truthy(opt[1])

\* Evaluating request.json on a body that is not JSON aborts the request
\* with werkzeug's error page: 415 Unsupported Media Type, or 400 Bad
\* Request with the werkzeug releases before 2.3.
NotJsonStatus == {400, 415}

AuthenticationRequired_redirect == Redirect("/login", "")

\* jsonify({'error': 'Authentication required'}), 401
AuthenticationRequired == Json(401, [error |-> "Authentication required"])

\* POST /chat
chat_api(c, body, ok, dt) ==
    /\ pending[c] = <<>>
    /\ req' = Request(c, "POST", "/chat", body)
    /\ IF ~LoggedIn(session[c])
       THEN /\ resp' = AuthenticationRequired
            /\ io' = NoIO
            /\ UNCHANGED <<chats, now>>
       ELSE IF ~TruthyOpt(FormMessage(body)) /\ body.content_type # "json"
       THEN \* `or` goes on to request.json, which aborts the request
            /\ \E status \in NotJsonStatus : resp' = ErrorPage(status)
            /\ io' = NoIO
            /\ UNCHANGED <<chats, now>>
       ELSE LET user_input == IF TruthyOpt(FormMessage(body))
                              THEN FormMessage(body)
                              ELSE JsonMessage(body)
            IN  IF ~TruthyOpt(user_input)
                THEN /\ resp' = Json(400, [error |-> "Message is required"])
                     /\ io' = NoIO
                     /\ UNCHANGED <<chats, now>>
                ELSE LET ai_reply == get_ai_response(Strip(user_input[1])) IN
                     IF ok
                     THEN /\ now' = now + dt
                          /\ chats' = Append(chats,
                                 [id        |-> Len(chats) + 1,
                                  user_id   |-> session[c].user_id,
                                  question  |-> user_input[1],
                                  response  |-> ai_reply,
                                  timestamp |-> now'])
                          /\ io' = IO("ok", NotScored)
                          /\ resp' = Json(200, [reply |-> ai_reply,
                                                question |-> user_input[1]])
                     ELSE \* the commit raised; the request's session is
                          \* discarded with the request
                          /\ UNCHANGED <<chats, now>>
                          /\ io' = IO("failed", NotScored)
                          /\ resp' = Json(503, [error |->
                                 "AI service is temporarily unavailable. Please try again later."])
    /\ UNCHANGED <<users, feedbacks, session, pending, registered>>

\* POST /submit_feedback
submit_feedback(c, form, scorer, ok, dt) ==
    /\ pending[c] = <<>>
    /\ req' = Request(c, "POST", "/submit_feedback", form)
    /\ IF ~LoggedIn(session[c])
       THEN /\ resp' = Redirect("/login", "")
            /\ io' = NoIO
            /\ UNCHANGED <<feedbacks, now>>
       ELSE LET question      == form.question
                feedback_text == Strip(form.feedback)
            IN  IF ~Truthy(feedback_text)
                THEN /\ resp' = Redirect("/chat", "")
                     /\ io' = NoIO
                     /\ UNCHANGED <<feedbacks, now>>
                ELSE LET sentiment == analyze_sentiment(scorer) IN
                     IF ok
                     THEN /\ now' = now + dt
                          /\ feedbacks' = Append(feedbacks,
                                 [id            |-> Len(feedbacks) + 1,
                                  user_id       |-> session[c].user_id,
                                  question      |-> question,
                                  feedback_text |-> feedback_text,
                                  sentiment     |-> sentiment,
                                  timestamp     |-> now'])
                          /\ io' = IO("ok", scorer)
                          /\ resp' = Redirect("/chat",
                                 "Thank you for your feedback! It helps us improve our services.")
                     ELSE \* the commit raised and nothing catches it
                          /\ UNCHANGED <<feedbacks, now>>
                          /\ io' = IO("failed", scorer)
                          /\ resp' = ErrorPage(500)
    /\ UNCHANGED <<users, chats, session, pending, registered>>

\* GET /dashboard
dashboard(c, tie) ==
    /\ pending[c] = <<>>
    /\ req' = Request(c, "GET", "/dashboard", NoForm)
    /\ resp' = IF ~LoggedIn(session[c])
               THEN Redirect("/login", "")
               ELSE RenderWith("dashboard.html",
                        [stats           |-> get_feedback_stats(session[c]),
                         recent_feedback |->
                             recent_feedback(session[c].user_id, tie)])
    /\ io' = NoIO
    /\ UNCHANGED <<users, chats, feedbacks, session, pending, now, registered>>

----------------------------------------------------------------------------
(* The application from a fresh database *)

Clients == {"c1", "c2"}

NoRequest == Request("", "", "", NoForm)

Init ==
    /\ users = <<>>
    /\ chats = <<>>
    /\ feedbacks = <<>>
    /\ session = [c \in Clients |-> EmptySession]
    /\ pending = [c \in Clients |-> <<>>]
    /\ now = 0
    /\ registered = <<>>
    /\ req = NoRequest
    /\ io = NoIO
    /\ resp = NoResponse

\* how many ChatHistory and Feedback rows a run inserts at most
MaxChat == 1
MaxFeedback == 1

SignupForm(full_name, email, password) ==
    [full_name |-> full_name, email |-> email, password |-> password]

LoginForm(email, password) == [email |-> email, password |-> password]

FeedbackForm(question, feedback) ==
    [question |-> question, feedback |-> feedback]

\* the requests of a run
SignupForms == { SignupForm(<<"A">>, <<"a">>, <<"p">>) }

LoginForms ==
    { LoginForm(<<"a">>, <<"p">>),
      LoginForm(<<"a">>, <<"P">>) }

ChatBodies ==
    { ChatBody(ct, TRUE, m) : ct \in {"form", "json"},
                              m \in { <<>>, <<"t","a","x">> } }
    \cup { ChatBody(ct, FALSE, <<>>) : ct \in {"form", "json"} }

FeedbackForms ==
    { FeedbackForm(<<"t","a","x">>, <<" ">>),
      FeedbackForm(<<"t","a","x">>, <<"o","k">>) }

Scorers == { ScorerReturned(50) }

Salts == { "s1" }

Next ==
    \/ \E c \in Clients, form \in SignupForms, salt \in Salts :
           SignupCheck(c, form, salt)
    \/ \E c \in Clients, ok \in BOOLEAN : SignupCommit(c, ok, 1)
    \/ \E c \in Clients, form \in LoginForms : Login(c, form)
    \/ \E c \in Clients : Logout(c)
    \/ \E c \in Clients : Home(c)
    \/ \E c \in Clients : Chat(c)
    \/ \E c \in Clients, body \in ChatBodies, ok \in BOOLEAN :
           /\ ok => Len(chats) < MaxChat
           /\ chat_api(c, body, ok, 1)
    \/ \E c \in Clients, form \in FeedbackForms, scorer \in Scorers,
          ok \in BOOLEAN :
           /\ ok => Len(feedbacks) < MaxFeedback
           /\ submit_feedback(c, form, scorer, ok, 1)
    \/ \E c \in Clients, tie \in TieBreaks : dashboard(c, tie)

Spec == Init /\ [][Next]_vars

----------------------------------------------------------------------------
(* Signing up and logging in, with credentials that differ in case and in *)
(* surrounding whitespace, and two salts                                   *)

AuthSignupForms ==
    { SignupForm(<<"A">>, <<"a">>, <<"p">>),
      SignupForm(<<"B">>, <<" ","a"," ">>, <<"p"," ">>),
      SignupForm(<<"B">>, <<"b">>, <<"p">>),
      SignupForm(<<" ">>, <<"b">>, <<"p">>),
      SignupForm(<<"A">>, <<"a">>, <<>>) }

AuthLoginForms ==
    [email    : { <<"a">>, <<" ","a"," ">>, <<"b">> },
     password : { <<"p">>, <<"P">>, <<"p"," ">>, <<>> }]

AuthSalts == { "s1", "s2" }

NextAuth ==
    \/ \E c \in Clients, form \in AuthSignupForms, salt \in AuthSalts :
           SignupCheck(c, form, salt)
    \/ \E c \in Clients, ok \in BOOLEAN : SignupCommit(c, ok, 1)
    \/ \E c \in Clients, form \in AuthLoginForms : Login(c, form)
    \/ \E c \in Clients : Logout(c)

SpecAuth == Init /\ [][NextAuth]_vars

----------------------------------------------------------------------------
(* Two users at work: browser c1 has signed up and logged in as user 1,   *)
(* browser c2 as user 2 (a state SpecAuth reaches)                         *)

SeedForms ==
    << SignupForm(<<"A">>, <<"a">>, <<"p">>),
       SignupForm(<<"B">>, <<"b">>, <<"p">>) >>

SeedUsers ==
    [id \in 1..2 |->
        [id            |-> id,
         full_name     |-> SeedForms[id].full_name,
         email         |-> SeedForms[id].email,
         password_hash |-> generate_password_hash(SeedForms[id].password, "s1"),
         created_at    |-> id]]

InitLoggedIn ==
    /\ users = SeedUsers
    /\ registered = SeedForms
    /\ chats = <<>>
    /\ feedbacks = <<>>
    /\ now = Len(SeedUsers)
    /\ session = [c \in Clients |->
                     IF c = "c1"
                     THEN [user_id |-> 1, user_name |-> <<"A">>]
                     ELSE [user_id |-> 2, user_name |-> <<"B">>]]
    /\ pending = [c \in Clients |-> <<>>]
    /\ req = Request("c2", "POST", "/login", LoginForm(<<"b">>, <<"p">>))
    /\ io = NoIO
    /\ resp = Redirect("/home", "Login successful!")

----------------------------------------------------------------------------
(* Feedback: blank and non-blank texts, scores on both sides of the     *)
(* thresholds and on them, a scorer that raises, commits that fail         *)

MaxScoredFeedback == 3

ScoredFeedbackForms ==
    [question : { <<>> },
     feedback : { <<>>, <<" ">>, <<"\t"," ">>, <<" ","o","k"," ">> }]

FeedbackScorers ==
    { ScorerRaised }
    \cup { ScorerReturned(p) : p \in {-50, -11, -10, 0, 10, 11, 50} }

NextFeedback ==
    \/ \E c \in Clients, form \in ScoredFeedbackForms,
          scorer \in FeedbackScorers, ok \in BOOLEAN :
           /\ ok => Len(feedbacks) < MaxScoredFeedback
           /\ submit_feedback(c, form, scorer, ok, 1)
    \/ \E c \in Clients, tie \in TieBreaks : dashboard(c, tie)

SpecFeedback == InitLoggedIn /\ [][NextFeedback]_vars

----------------------------------------------------------------------------
(* The dashboard's statistics: both users submit feedback of all three    *)
(* labels                                                                  *)

MaxStatsFeedback == 4

StatsFeedbackForm == FeedbackForm(<<"t","a","x">>, <<"o","k">>)

StatsScorers == { ScorerReturned(p) : p \in {-50, 0, 50} }

NextStats ==
    \/ \E c \in Clients, scorer \in StatsScorers :
           /\ Len(feedbacks) < MaxStatsFeedback
           /\ submit_feedback(c, StatsFeedbackForm, scorer, TRUE, 1)
    \/ \E c \in Clients, tie \in TieBreaks : dashboard(c, tie)

SpecStats == InitLoggedIn /\ [][NextStats]_vars

----------------------------------------------------------------------------
(* The dashboard's recent feedback: user 1 submits more rows than the     *)
(* dashboard lists, user 2 submits one row at any time in between, and    *)
(* the clock may stand still between two rows                              *)

MaxRecentFeedback == 11
MaxTicks == 1

RecentFeedbackForm == FeedbackForm(<<>>, <<"o","k">>)

MayInsert(c) ==
    IF c = "c1"
    THEN Len(FeedbackOf(session[c].user_id)) < MaxRecentFeedback
    ELSE FeedbackOf(session[c].user_id) = <<>>

NextRecent ==
    \/ \E c \in Clients, dt \in {0, 1} :
           /\ MayInsert(c)
           /\ dt = 1 => now < Len(SeedUsers) + MaxTicks
           /\ submit_feedback(c, RecentFeedbackForm, ScorerReturned(0), TRUE, dt)
    \/ \E c \in Clients, tie \in TieBreaks : dashboard(c, tie)

SpecRecent == InitLoggedIn /\ [][NextRecent]_vars

----------------------------------------------------------------------------
(* The responder: one question, made of up to MaxWords pieces or one of   *)
(* the examples, is put to a fresh chat history                            *)

MaxWords == 2

Pieces ==
    { <<"V","o","t","e"," ">>,
      <<"t","a","x"," ">>,
      <<"p","a","i","d"," ">>,
      <<"L","I","C","E","N","S","E"," ">>,
      <<"c","o","u","r","t"," ">>,
      <<"F","o","o","d"," ">>,
      <<"x","y","z"," ">>,
      <<" ">> }

RECURSIVE Concat(_)
Concat(pieces) ==
    IF pieces = <<>> THEN <<>> ELSE Head(pieces) \o Concat(Tail(pieces))

ExampleQuestions ==
    { <<"C","a","n"," ","I"," ","v","o","t","e"," ","a","f","t","e","r"," ",
        "p","a","y","i","n","g"," ","m","y"," ","t","a","x","?">>,
      <<"W","h","a","t"," ","l","i","c","e","n","s","e"," ","d","o"," ","I",
        " ","n","e","e","d","?">>,
      <<"x","y","z"," ","n","o","n","s","e","n","s","e">> }

Questions ==
    { Concat(ws) : ws \in UNION { [1..n -> Pieces] : n \in 0..MaxWords } }
    \cup ExampleQuestions

NextResponder ==
    \/ \E c \in Clients, ct \in {"form", "json"}, q \in Questions :
           /\ chats = <<>>
           /\ chat_api(c, ChatBody(ct, TRUE, q), TRUE, 1)

SpecResponder == InitLoggedIn /\ [][NextResponder]_vars

----------------------------------------------------------------------------
(* Claims.  A step that is not a stuttering step is a step of the handler *)
(* of req', the request of browser req'.client; unprimed variables are    *)
(* the state the handler found.                                            *)

Handled(method, path) == req'.method = method /\ req'.path = path

Blank(s) == \A i \in DOMAIN s : s[i] \in Whitespace

DuplicateEmailError ==
    Render("signup.html", "Email already registered. Please login instead.")

LoginSucceeded(r) == r.kind = "redirect" /\ r.target = "/home"

\* C2: a login with the email of a signup that created a row succeeds
\* exactly when its password is the signup's password, character for
\* character; a successful login binds the browser's session to that row's
\* id, which is the id given at signup, and to its full name; a failed
\* login leaves the session as it was, so an unbound session stays unbound.
C2_LoginIffPassword ==
    [][Handled("POST", "/login") =>
        LET c    == req'.client
            form == req'.form
        IN  /\ \A id \in DOMAIN registered :
                   registered[id].email = form.email =>
                       /\ LoginSucceeded(resp') <=>
                              registered[id].password = form.password
                       /\ LoginSucceeded(resp') =>
                              /\ users[id].id = id
                              /\ session'[c] =
                                     [user_id   |-> id,
                                      user_name |-> users[id].full_name]
            /\ ~LoginSucceeded(resp') =>
                   /\ session' = session
                   /\ resp'.kind = "page" /\ resp'.target = "login.html"
            /\ \A i \in DOMAIN users : users'[i] = users[i]]_vars

\* a login with the registered password has succeeded in a browser other
\* than the one that signed up, after a login that failed on a password
\* differing only in case or in a trailing blank is possible
C2_Witness ==
    /\ req.path = "/login"
    /\ LoginSucceeded(resp)
    /\ \E id \in DOMAIN registered :
           /\ registered[id].email = req.form.email
           /\ registered[id].password = req.form.password
           /\ session[req.client].user_id = id
    /\ Len(users) = 2

\* C3: a request for /home, /chat, /dashboard or /submit_feedback from a
\* browser whose session holds no user id is redirected to /login, a POST
\* /chat from it gets a JSON error with status 401 and no redirect, and
\* none of them adds a ChatHistory or Feedback row; the session holds no
\* user id after every /logout and after a login that fails in such a
\* browser.
C3_Unauthenticated ==
    [][LET c == req'.client IN
       /\ (/\ ~LoggedIn(session[c])
           /\ \/ Handled("GET", "/home")
              \/ Handled("GET", "/chat")
              \/ Handled("GET", "/dashboard")
              \/ Handled("POST", "/submit_feedback")
              \/ Handled("POST", "/chat"))
          => /\ chats' = chats
             /\ feedbacks' = feedbacks
             /\ IF Handled("POST", "/chat")
                THEN /\ resp'.kind = "json"
                     /\ resp'.status = 401
                     /\ resp'.data.error # ""
                ELSE /\ resp'.kind = "redirect"
                     /\ resp'.status = 302
                     /\ resp'.target = "/login"
       /\ Handled("GET", "/logout") => ~LoggedIn(session'[c])
       /\ (/\ Handled("POST", "/login")
           /\ ~LoggedIn(session[c])
           /\ ~LoginSucceeded(resp')) => ~LoggedIn(session'[c])]_vars

\* a POST /chat has been answered 401 in a browser without a session while
\* the other browser is logged in and has chatted
C3_Witness ==
    /\ req.method = "POST" /\ req.path = "/chat"
    /\ resp.status = 401
    /\ ~LoggedIn(session[req.client])
    /\ \E c \in Clients : LoggedIn(session[c])
    /\ Len(chats) = 1

\* C4: a POST /chat from a logged-in browser whose body has no 'message'
\* field, or an empty one, gets a JSON error with status 400 and adds no
\* ChatHistory row, be the body form-encoded or JSON.
C4_MissingMessage400 ==
    [][LET c == req'.client IN
       (/\ Handled("POST", "/chat")
        /\ LoggedIn(session[c])
        /\ ~req'.form.has_message \/ req'.form.message = <<>>)
       => /\ resp'.kind = "json"
          /\ resp'.status = 400
          /\ chats' = chats]_vars

\* C5: when the commit of POST /chat, POST /submit_feedback or POST /signup
\* fails, no row of the request is in a table, POST /chat answers a JSON
\* error with status 503, and the feedback and signup flows answer with a
\* flash message and not with a server error.
C5_CommitFailureSurfaced ==
    [][io'.commit = "failed" =>
       /\ users' = users
       /\ chats' = chats
       /\ feedbacks' = feedbacks
       /\ req'.path = "/chat" =>
              resp'.kind = "json" /\ resp'.status = 503
       /\ req'.path \in {"/submit_feedback", "/signup"} =>
              resp'.flash # "" /\ resp'.kind # "error"]_vars

KeywordSets ==
    <<LicenseWords, VotingWords, TaxWords, SocialWords, LegalWords>>

Templates ==
    <<LicenseTemplate, VotingTemplate, TaxTemplate, SocialTemplate,
      LegalTemplate>>

\* the keyword sets of which a keyword occurs in the lower-cased question
Occurring(question) ==
    { k \in DOMAIN KeywordSets :
        \E word \in KeywordSets[k] : Contains(word, Lower(question)) }

Answered == req.method = "POST" /\ req.path = "/chat" /\ resp.status = 200

\* C6: the reply to a question is the template of the earliest keyword set,
\* in the order licenses, voting, tax, social services, legal, of which a
\* keyword occurs in the lower-cased question, and the default template
\* when no keyword occurs; with "vote" and "tax" both in the question the
\* reply is never the tax template, and it is the voting template unless a
\* licenses keyword occurs too.  The reply stored is the reply sent.
C6_FirstMatch ==
    Answered =>
        LET question == req.form.message
            sets     == Occurring(question)
            reply    == resp.data.reply
        IN  /\ reply = IF sets = {} THEN DefaultTemplate
                       ELSE Templates[CHOOSE k \in sets : \A j \in sets : k <= j]
            /\ chats[Len(chats)].response = reply
            /\ chats[Len(chats)].question = question
            /\ ({2, 3} \subseteq sets) =>
                   /\ reply # TaxTemplate
                   /\ 1 \notin sets => reply = VotingTemplate

\* the question with "vote" and "tax" has been answered with the voting
\* template
C6_Witness ==
    /\ Answered
    /\ Contains(<<"v","o","t","e">>, Lower(req.form.message))
    /\ Contains(<<"t","a","x">>, Lower(req.form.message))
    /\ resp.data.reply = VotingTemplate

Labels == {Positive, Negative, Neutral}

\* C7: every Feedback row's sentiment is one of 'Positive', 'Negative',
\* 'Neutral'; the row a feedback request adds is 'Positive' when the score
\* is above 0.1, 'Negative' when it is below -0.1 and 'Neutral' otherwise,
\* at exactly 0.1, -0.1 and 0.0 too, and when the scorer raised, which
\* does not make the request fail.
C7_SentimentLabel ==
    /\ \A i \in DOMAIN feedbacks : feedbacks[i].sentiment \in Labels
    /\ (req.path = "/submit_feedback" /\ io.commit = "ok") =>
           LET scorer == io.scorer
               row    == feedbacks[Len(feedbacks)]
           IN  /\ scorer.called
               /\ row.sentiment =
                      IF scorer.raised THEN Neutral
                      ELSE IF scorer.polarity > PolarityThreshold THEN Positive
                      ELSE IF scorer.polarity < -PolarityThreshold THEN Negative
                      ELSE Neutral
               /\ scorer.polarity \in {-PolarityThreshold, 0, PolarityThreshold}
                      => row.sentiment = Neutral
               /\ resp.kind = "redirect"

\* rows scored exactly 0.1 and scored by a scorer that raised are stored
\* as 'Neutral'
C7_Witness ==
    /\ req.path = "/submit_feedback"
    /\ io.commit = "ok"
    /\ io.scorer.raised
    /\ Len(feedbacks) >= 2
    /\ feedbacks[Len(feedbacks)].sentiment = Neutral
    /\ \E i \in DOMAIN feedbacks : feedbacks[i].sentiment = Positive
    /\ \E i \in DOMAIN feedbacks : feedbacks[i].sentiment = Negative

\* C8: a /submit_feedback from a logged-in browser whose feedback text is
\* empty or all whitespace changes no table and no session, flashes
\* nothing and redirects to /chat; a request that adds a Feedback row adds
\* one row, whose text is the trimmed, non-empty feedback text.
C8_BlankFeedback ==
    [][LET c    == req'.client
           form == req'.form
       IN  (Handled("POST", "/submit_feedback") /\ LoggedIn(session[c])) =>
               /\ Blank(form.feedback) =>
                      /\ feedbacks' = feedbacks
                      /\ users' = users
                      /\ chats' = chats
                      /\ session' = session
                      /\ resp' = Redirect("/chat", "")
               /\ feedbacks' # feedbacks =>
                      /\ ~Blank(form.feedback)
                      /\ Len(feedbacks') = Len(feedbacks) + 1
                      /\ SubSeq(feedbacks', 1, Len(feedbacks)) = feedbacks
                      /\ LET text == feedbacks'[Len(feedbacks')].feedback_text
                         IN  /\ text # <<>>
                             /\ Head(text) \notin Whitespace
                             /\ text[Len(text)] \notin Whitespace]_vars

\* feedback of a tab and a blank has been dropped, with rows in the table
C8_Witness ==
    /\ req.path = "/submit_feedback"
    /\ req.form.feedback = <<"\t", " ">>
    /\ resp = Redirect("/chat", "")
    /\ Len(feedbacks) >= 1

\* the Feedback rows of a user with a label
RowsOf(user_id, label) ==
    { i \in DOMAIN feedbacks :
        feedbacks[i].user_id = user_id /\ feedbacks[i].sentiment = label }

DashboardShown == req.path = "/dashboard" /\ resp.kind = "page"

\* C9: the stats the dashboard shows a logged-in user count that user's
\* Feedback rows and no others: positive, negative and neutral are the
\* numbers of the user's rows labelled 'Positive', 'Negative' and
\* 'Neutral', total is the number of the user's rows and their sum, and all
\* four are 0 for a user without feedback.
C9_Stats ==
    DashboardShown =>
        LET user_id == session[req.client].user_id
            stats   == resp.data.stats
            mine    == { i \in DOMAIN feedbacks :
                           feedbacks[i].user_id = user_id }
        IN  /\ stats.positive = Cardinality(RowsOf(user_id, Positive))
            /\ stats.negative = Cardinality(RowsOf(user_id, Negative))
            /\ stats.neutral = Cardinality(RowsOf(user_id, Neutral))
            /\ stats.total = Cardinality(mine)
            /\ stats.total = stats.positive + stats.neutral + stats.negative
            /\ mine = {} => stats = [positive |-> 0, neutral |-> 0,
                                     negative |-> 0, total |-> 0]

\* the dashboard shows {positive: 2, neutral: 0, negative: 1, total: 3} to
\* a user while the table holds another user's row
C9_Witness ==
    /\ DashboardShown
    /\ resp.data.stats = [positive |-> 2, neutral |-> 0, negative |-> 1,
                          total |-> 3]
    /\ Len(feedbacks) > 3

\* what C10 says of the list but for its order
RecentIsNewest(user_id, recent) ==
    LET mine   == { feedbacks[i] : i \in { j \in DOMAIN feedbacks :
                         feedbacks[j].user_id = user_id } }
        listed == { recent[k] : k \in DOMAIN recent }
    IN  /\ Len(recent) <= 10
        /\ Len(recent) = IF Cardinality(mine) < 10 THEN Cardinality(mine) ELSE 10
        /\ listed \subseteq mine
        /\ Cardinality(listed) = Len(recent)
        /\ \A r \in mine \ listed : \A k \in DOMAIN recent :
               r.timestamp <= recent[k].timestamp

\* C10 (amended): the dashboard's recent feedback has at most 10 rows, all
\* of them rows of the user, in order of descending timestamp, where rows
\* of equal timestamp follow each other in either order; they are the
\* user's newest rows: no row of the user that is left out is newer than a
\* row listed.
C10_Recent ==
    DashboardShown =>
        LET recent == resp.data.recent_feedback IN
        /\ RecentIsNewest(session[req.client].user_id, recent)
        /\ \A k \in 1..(Len(recent) - 1) :
               recent[k].timestamp >= recent[k + 1].timestamp

\* C10 as claimed: the same, with the list strictly descending
C10_StrictlyDescending ==
    DashboardShown =>
        LET recent == resp.data.recent_feedback IN
        /\ RecentIsNewest(session[req.client].user_id, recent)
        /\ \A k \in 1..(Len(recent) - 1) :
               recent[k].timestamp > recent[k + 1].timestamp

\* the dashboard lists 10 of a user's 11 rows, two of them of one
\* timestamp, and the table holds another user's row
C10_Witness ==
    /\ DashboardShown
    /\ Len(resp.data.recent_feedback) = 10
    /\ Len(FeedbackOf(session[req.client].user_id)) > 10
    /\ Len(feedbacks) > Len(FeedbackOf(session[req.client].user_id))
    /\ \E k \in 1..9 : resp.data.recent_feedback[k].timestamp =
                           resp.data.recent_feedback[k + 1].timestamp
    /\ \E k \in 1..9 : resp.data.recent_feedback[k].timestamp >
                           resp.data.recent_feedback[k + 1].timestamp

====
